---- MODULE Spec2Model ----
(***************************************************************************)
(* Windowed model inference and overlap-aware stitching of stt_gui        *)
(* (stt_gui/stt_app/profiles/stt_utils.py), and the worker jobs that run  *)
(* it (profiles/__init__.py, wav_to_text_silero.py, example.py,           *)
(* to_upper.py), Profile.run_worker with the worker's QThread, and the    *)
(* SavedStateTracker of stt_gui/utils.py.                                 *)
(*                                                                         *)
(* Tensors are 1-D sequences of samples (the batch dimension of size 1 is *)
(* elided).  A sample is an exact rational <<num, den>> with den > 0, or  *)
(* the non-finite value NaN (den = 0): float rounding is not modelled,    *)
(* float propagation of non-finite values is.                             *)
(***************************************************************************)
EXTENDS Integers, Sequences, FiniteSets, TLC

\* ------------------------------------------------------------------ bounds
MaxN == 4
MaxWinsize == 4
MaxFade == 4
MaxChunk == 6

\* ------------------------------------------------------- float arithmetic
Abs(x) == IF x < 0 THEN -x ELSE x

Min(a, b) == IF a <= b THEN a ELSE b

Max(a, b) == IF a >= b THEN a ELSE b

RECURSIVE GCD(_, _)
GCD(a, b) == IF b = 0 THEN a ELSE GCD(b, a % b)

NaN == <<0, 0>>

Zero == <<0, 1>>

One == <<1, 1>>

Two == <<2, 1>>

IsNaN(x) == x[2] = 0

\* The rational a/b in lowest terms (b >= 0; b = 0 is NaN).
Rat(a, b) ==
    IF b = 0 THEN NaN
    ELSE LET g == GCD(Abs(a), b) IN <<a \div g, b \div g>>

\* x * y of floats: NaN times anything, zero included, is NaN.
RMul(x, y) == IF IsNaN(x) \/ IsNaN(y) THEN NaN ELSE Rat(x[1] * y[1], x[2] * y[2])

\* x + y of floats.
RAdd(x, y) ==
    IF IsNaN(x) \/ IsNaN(y) THEN NaN
    ELSE Rat(x[1] * y[2] + y[1] * x[2], x[2] * y[2])

\* a < b for ratios <<num, den>> with positive denominators.
RatLess(a, b) == a[1] * b[2] < b[1] * a[2]

\* Python's int() of the quotient a/b (b > 0): truncation toward zero.
IntTrunc(a, b) == IF a >= 0 THEN a \div b ELSE -((-a) \div b)

CeilDiv(a, b) == (a + b - 1) \div b

\* --------------------------------------------------------- Python slicing
\* A slice bound as Python resolves it against a sequence of length len.
SliceIndex(i, len) == IF i < 0 THEN Max(i + len, 0) ELSE Min(i, len)

\* s[lo:hi]
PySlice(s, lo, hi) ==
    LET b == SliceIndex(lo, Len(s))
        e == SliceIndex(hi, Len(s))
    IN  IF b < e THEN SubSeq(s, b + 1, e) ELSE <<>>

\* s[lo:]
PySliceFrom(s, lo) == PySlice(s, lo, Len(s))

\* s[:hi]
PySliceTo(s, hi) == PySlice(s, 0, hi)

\* Mutant of RangeLen: only the windows that fit whole (floor, not ceiling).
RangeLenFloor(start, stop, step) ==
    IF step > 0 THEN (IF stop > start THEN (stop - start) \div step ELSE 0)
    ELSE (IF start > stop THEN (start - stop) \div (-step) ELSE 0)

\* len(range(start, stop, step)) for step # 0.
RangeLen(start, stop, step) ==
    IF step > 0 THEN (IF stop > start THEN CeilDiv(stop - start, step) ELSE 0)
    ELSE (IF start > stop THEN CeilDiv(start - stop, -step) ELSE 0)

\* list(range(start, stop, step)) for step # 0.
PyRange(start, stop, step) ==
    [k \in 1..RangeLen(start, stop, step) |-> start + (k - 1) * step]

Zeros(len) == [k \in 1..len |-> Zero]

Ones(len) == [k \in 1..len |-> One]

\* t *= c, elementwise and in place.
Scale(t, c) == [k \in 1..Len(t) |-> RMul(t[k], c)]

\* t[:len(src)] = src, in place (len(src) <= len(t)).
AssignPrefix(t, src) == [k \in 1..Len(t) |-> IF k <= Len(src) THEN src[k] ELSE t[k]]

\* ----------------------------------------------------------- linear_fade
\* torch.linspace(0, 1, steps)[j], 0-indexed.
LinspaceUp(steps, j) == Rat(j, steps - 1)

\* torch.linspace(1, 0, steps)[j], 0-indexed.
LinspaceDown(steps, j) == Rat(steps - 1 - j, steps - 1)

\* Mutant of RampIn: the ramp keeps its zero endpoint (ramp_in, not ramp_in[1:],
\* of fade_in + 1 points).
RampInWithZero(fade_in, i) == LinspaceUp(fade_in + 1, i)

\* ramp_in[1:] of linear_fade, applied to tnsr[:fade_in + 1]
RampIn(fade_in, i) == LinspaceUp(fade_in + 2, i + 1)

\* ramp_out[:-1] of linear_fade, applied to tnsr[-fade_out - 1:]
RampOut(fade_out, i) == LinspaceDown(fade_out + 2, i)

\* The shapes of tnsr[:fade + 1] (or tnsr[-fade - 1:]) and of the ramp agree.
FadeFits(t, fade) == fade <= 0 \/ fade + 1 <= Len(t)

FadeInPart(t, fade_in) ==
    IF fade_in > 0
    THEN [k \in 1..Len(t) |->
            IF k <= fade_in + 1 THEN RMul(t[k], RampIn(fade_in, k - 1)) ELSE t[k]]
    ELSE t

FadeOutPart(t, fade_out) ==
    IF fade_out > 0
    THEN LET first == Len(t) - fade_out
         IN  [k \in 1..Len(t) |->
                IF k >= first THEN RMul(t[k], RampOut(fade_out, k - first)) ELSE t[k]]
    ELSE t

\* linear_fade(tnsr, fade_in, fade_out): the new contents of tnsr.
LinearFade(t, fade_in, fade_out) == FadeOutPart(FadeInPart(t, fade_in), fade_out)

\* -------------------------------------------------------------- state
VARIABLES
    fn,             \* the function called
    pc,             \* position inside it
    err,            \* the exception raised, "" if none
    tnsr,           \* the input signal
    tnsr0,          \* the input signal as passed in
    max_winsize,
    overlap_ratio,  \* <<num, den>>
    device,
    modelKind,      \* what the model callable returns: a fresh tensor or its input
    winsize, overlap, stride,
    window_range,
    idx,            \* enumerate() position of the window loop, from 1
    batch,          \* the single reused input buffer
    heap,           \* the tensors allocated for outputs, by reference 1..
    chunks,         \* references: 0 is the batch buffer, k > 0 is heap[k]
    calls,          \* the model calls so far: [beg, input, out]
    result,         \* windowed_audio_rendering's result tensor
    written,        \* indices of result written by the overlay
    fade_len, ch1, ch2, fpc,    \* two chunks cross-faded with linear_fade
    str1, str2, thresh,         \* merge_overlapping_strings: the arguments,
    max_range,                  \* <<>> for None, <<k>> for k
    merged, match, match_score, \* the triple returned
    mpc,
    overlap_merge_threshold,    \* windowed_stt_rendering: threshold of the merges,
    max_overlap_characters,     \* their max_range, <<>> for None
    merged_text,                \* the accumulator `merged` of the merge loop
    match_scores,
    midx,                       \* enumerate() position of the merge loop, from 1
    ret,                        \* the value returned to the caller
    abort_flag,                 \* ProfileWorker._abort
    progress,                   \* the values emitted through progressSignal
    emitted,                    \* the values emitted through resultSignal
    quack, quack_count,         \* ExampleWorker.run: the arguments,
    qi, qresult,                \* its loop index and its result string, as lines
    text,                       \* ToUpperWorker.run: the argument
    has_unsaved_changes,        \* SavedStateTracker._has_unsaved_changes
    has_been_deleted,           \* SavedStateTracker._has_been_deleted
    dialog,                     \* the dialog the tracker created last
    tlog,                       \* the tracker's calls so far: [op, answer, returned]
    rpc,                        \* Profile.run_worker: position of the GUI thread
    with_dialog,                \* its argument: dialog is not None
    dialog_ok,                  \* the outcome of dialog.exec_()
    tpc,                        \* worker.thread: position of the worker's QThread
    events,                     \* slot calls queued for the worker's thread
    quit_flag                   \* thread.quit() was called

winVars == <<fn, pc, err, tnsr, tnsr0, max_winsize, overlap_ratio, device, modelKind,
             winsize, overlap, stride, window_range, idx, batch, heap, chunks,
             calls, result, written>>

fadeVars == <<fade_len, ch1, ch2, fpc>>

mergeVars == <<str1, str2, thresh, max_range, merged, match, match_score, mpc>>

sttVars == <<overlap_merge_threshold, max_overlap_characters, merged_text,
             match_scores, midx, ret>>

workerVars == <<abort_flag, progress, emitted, quack, quack_count, qi, qresult, text>>

trackerVars == <<has_unsaved_changes, has_been_deleted, dialog, tlog>>

runVars == <<rpc, with_dialog, dialog_ok, tpc, events, quit_flag>>

guiVars == <<trackerVars, runVars>>

vars == <<winVars, fadeVars, mergeVars, sttVars, workerVars, guiVars>>

nonWinVars == <<fadeVars, mergeVars, sttVars, workerVars, guiVars>>

nonFadeVars == <<winVars, mergeVars, sttVars, workerVars, guiVars>>

nonMergeVars == <<winVars, fadeVars, sttVars, workerVars, guiVars>>

Samples == {One, Two, NaN}

OverlapRatios == {<<0, 1>>, <<1, 4>>, <<1, 2>>, <<3, 4>>, <<1, 1>>, <<5, 4>>}

Devices == {"cpu", "cuda"}

ModelKinds == {"fresh", "returns_input"}

Signals == UNION {[1..len -> Samples] : len \in 0..MaxN}

n == Len(tnsr)

IdleWindow ==
    /\ fn = "none" /\ pc = "idle" /\ err = ""
    /\ tnsr = <<>> /\ tnsr0 = <<>> /\ max_winsize = 0 /\ overlap_ratio = <<0, 1>>
    /\ device = "cpu" /\ modelKind = "fresh"
    /\ winsize = 0 /\ overlap = 0 /\ stride = 0 /\ window_range = <<>> /\ idx = 0
    /\ batch = <<>> /\ heap = <<>> /\ chunks = <<>> /\ calls = <<>>
    /\ result = <<>> /\ written = {}

IdleFade == fade_len = 0 /\ ch1 = <<>> /\ ch2 = <<>> /\ fpc = "idle"

IdleMerge ==
    /\ str1 = <<>> /\ str2 = <<>> /\ thresh = <<1, 1>> /\ max_range = <<>>
    /\ merged = <<>> /\ match = 0 /\ match_score = <<-1, 1>> /\ mpc = "idle"

\* Python values that cross a call boundary: None, a tuple, a string.
NoneValue == [tag |-> "None"]

TupleValue(items) == [tag |-> "tuple", items |-> items]

StrValue(s) == [tag |-> "str", s |-> s]

IdleStt ==
    /\ overlap_merge_threshold = <<1, 1>> /\ max_overlap_characters = <<>>
    /\ merged_text = <<>> /\ match_scores = <<>> /\ midx = 0 /\ ret = NoneValue

IdleWorker ==
    /\ abort_flag = FALSE /\ progress = <<>> /\ emitted = <<>>
    /\ quack = FALSE /\ quack_count = 0 /\ qi = 0 /\ qresult = <<>> /\ text = <<>>

\* A SavedStateTracker as __init__ leaves it (utils.py, lines 96-102).
IdleTracker ==
    /\ has_unsaved_changes = FALSE /\ has_been_deleted = FALSE
    /\ dialog = "None" /\ tlog = <<>>

\* No run_worker call: the QThread of ProfileWorker.__init__ is not started.
IdleRun ==
    /\ rpc = "idle" /\ with_dialog = FALSE /\ dialog_ok = "None"
    /\ tpc = "not started" /\ events = <<>> /\ quit_flag = FALSE

IdleGui == IdleTracker /\ IdleRun

\* ---------------------------------------------------------- windowed_run
InitWindow ==
    /\ fn \in {"windowed_run", "windowed_audio_rendering"}
    /\ pc = "start" /\ err = ""
    /\ tnsr \in Signals /\ tnsr0 = tnsr
    /\ max_winsize \in -1..MaxWinsize
    /\ overlap_ratio \in OverlapRatios
    /\ device \in Devices /\ modelKind \in ModelKinds
    /\ winsize = 0 /\ overlap = 0 /\ stride = 0 /\ window_range = <<>> /\ idx = 0
    /\ batch = <<>> /\ heap = <<>> /\ chunks = <<>> /\ calls = <<>>
    /\ result = <<>> /\ written = {}
    /\ IdleFade /\ IdleMerge /\ IdleStt /\ IdleWorker /\ IdleGui

WinsizeOf(mw, len) == Min(mw, len)

\* Mutant of OverlapOf: the product is rounded up instead of truncated.
OverlapOfCeil(ratio, ws) == CeilDiv(ratio[1] * ws, ratio[2])

OverlapOf(ratio, ws) == IntTrunc(ratio[1] * ws, ratio[2])

StrideOf(ws, ov) == ws - ov

WindowRange(len, st) == PyRange(0, len, st)

\* Lines 129-137: the window plan and the batch buffer.  range() raises
\* ValueError for a zero step, after the buffer has been allocated.
WR_Setup ==
    /\ pc = "start"
    /\ LET ws == WinsizeOf(max_winsize, n)
           ov == OverlapOf(overlap_ratio, ws)
           st == StrideOf(ws, ov)
       IN  /\ winsize' = ws
           /\ overlap' = ov
           /\ stride' = st
           /\ batch' = Zeros(Len(PySliceTo(tnsr, ws)))
           /\ IF st = 0
              THEN /\ pc' = "raised" /\ err' = "ValueError"
                   /\ UNCHANGED <<window_range, idx>>
              ELSE /\ pc' = "window_loop" /\ err' = err
                   /\ window_range' = WindowRange(n, st)
                   /\ idx' = 1
    /\ UNCHANGED <<fn, tnsr, tnsr0, max_winsize, overlap_ratio, device, modelKind,
                   heap, chunks, calls, result, written>>
    /\ UNCHANGED nonWinVars

\* The batch buffer after lines 140-143 for the window starting at beg.
FillBatch(buf, sig, beg, ws) == AssignPrefix(Scale(buf, Zero), PySlice(sig, beg, beg + ws))

\* chunk_hook(model(batch)) with the default hook ch.to("cpu"): the model returns a
\* fresh tensor holding a copy of its input, or its input itself; .to("cpu") copies
\* unless the tensor is on the CPU already.  TRUE if the output is the batch buffer.
OutputIsBatch(kind, dev) == kind = "returns_input" /\ dev = "cpu"

\* Mutant of AppendChunk: the output is inserted at the front.
PrependChunk(chs, out) == <<out>> \o chs

\* chunks.append(output)
AppendChunk(chs, out) == Append(chs, out)

\* The transcripts the speech-to-text model can read in a window.
Texts == {<<>>, <<"b">>, <<"a", "b">>}

\* What the model reads in a window that the caller's chunk_hook keeps: a
\* transcript for the callers that pass the hook ch[0][0], nothing otherwise.
ModelTexts(f) ==
    IF f \in {"windowed_stt_rendering", "WavToTextSileroWorker"} THEN Texts ELSE {<<>>}

\* chunk_hook(model(batch)): the default hook keeps the output tensor, the hook
\* of windowed_stt_rendering (lambda ch: ch[0][0]) keeps the first text.
HookOutput(f, tensor, txt) ==
    IF f \in {"windowed_stt_rendering", "WavToTextSileroWorker"} THEN txt ELSE tensor

\* Mutant of InputAfterFill: the batch buffer is a view of the first winsize
\* samples of the input (tnsr[:winsize] without zeros_like).
InputAfterFillShared(sig, buf) == buf \o PySliceFrom(sig, Len(buf))

\* The input signal after lines 142-143 have written the batch buffer buf: the
\* buffer is a tensor of its own (zeros_like, line 135), the input keeps its samples.
InputAfterFill(sig, buf) == sig

\* Lines 138-145: one iteration of the window loop.
WR_Iterate ==
    /\ pc = "window_loop"
    /\ idx <= Len(window_range)
    /\ LET beg == window_range[idx]
           chunk == PySlice(tnsr, beg, beg + winsize)
       IN  IF Len(chunk) > Len(batch)
           THEN /\ pc' = "raised" /\ err' = "RuntimeError"
                /\ UNCHANGED <<tnsr, batch, heap, chunks, calls, idx>>
           ELSE \E txt \in ModelTexts(fn) :
                LET filled == FillBatch(batch, tnsr, beg, winsize)
                    out == IF OutputIsBatch(modelKind, device) THEN 0 ELSE Len(heap) + 1
                IN  /\ batch' = filled
                    /\ tnsr' = InputAfterFill(tnsr, filled)
                    /\ heap' = IF out = 0 THEN heap
                               ELSE Append(heap, HookOutput(fn, filled, txt))
                    /\ chunks' = AppendChunk(chunks, out)
                    /\ calls' = Append(calls, [beg |-> beg, input |-> filled, out |-> out])
                    /\ idx' = idx + 1
                    /\ UNCHANGED <<pc, err>>
    /\ UNCHANGED <<fn, tnsr0, max_winsize, overlap_ratio, device, modelKind,
                   winsize, overlap, stride, window_range, result, written>>
    /\ UNCHANGED nonWinVars

\* Line 146: the loop is exhausted and windowed_run returns to its caller.
WR_Return ==
    /\ pc = "window_loop"
    /\ idx > Len(window_range)
    /\ pc' = IF fn = "windowed_run" THEN "done"
             ELSE IF fn = "windowed_stt_rendering" THEN "unpack"
             ELSE "fade_in"
    /\ UNCHANGED <<fn, err, tnsr, tnsr0, max_winsize, overlap_ratio, device, modelKind,
                   winsize, overlap, stride, window_range, idx, batch, heap, chunks,
                   calls, result, written>>
    /\ UNCHANGED nonWinVars

\* ---------------------------------------------- windowed_audio_rendering
\* The memory shared by the chunks: the batch buffer and the output tensors.
Deref(mem, ref) == IF ref = 0 THEN mem.b ELSE mem.h[ref]

Store(mem, ref, val) ==
    IF ref = 0 THEN [mem EXCEPT !.b = val] ELSE [mem EXCEPT !.h[ref] = val]

AllFit(mem, refs, fade) == \A k \in 1..Len(refs) : FadeFits(Deref(mem, refs[k]), fade)

\* for ch in refs: linear_fade(ch[0], fade_in, fade_out), in place.
RECURSIVE FadeAll(_, _, _, _)
FadeAll(mem, refs, fade_in, fade_out) ==
    IF refs = <<>> THEN mem
    ELSE FadeAll(Store(mem, Head(refs),
                       LinearFade(Deref(mem, Head(refs)), fade_in, fade_out)),
                 Tail(refs), fade_in, fade_out)

\* chunks[1:]
AllButFirst(chs) == PySliceFrom(chs, 1)

\* chunks[:-1]
AllButLast(chs) == PySliceTo(chs, -1)

\* Lines 167-168: every chunk but the first is faded in.
AR_FadeIn ==
    /\ pc = "fade_in"
    /\ LET mem == [b |-> batch, h |-> heap]
           refs == AllButFirst(chunks)
       IN  IF AllFit(mem, refs, overlap)
           THEN LET m2 == FadeAll(mem, refs, overlap, 0)
                IN  /\ batch' = m2.b /\ heap' = m2.h
                    /\ pc' = "fade_out" /\ err' = err
           ELSE /\ pc' = "raised" /\ err' = "RuntimeError"
                /\ UNCHANGED <<batch, heap>>
    /\ UNCHANGED <<fn, tnsr, tnsr0, max_winsize, overlap_ratio, device, modelKind,
                   winsize, overlap, stride, window_range, idx, chunks, calls,
                   result, written>>
    /\ UNCHANGED nonWinVars

\* Lines 170-171: every chunk but the last is faded out.
AR_FadeOut ==
    /\ pc = "fade_out"
    /\ LET mem == [b |-> batch, h |-> heap]
           refs == AllButLast(chunks)
       IN  IF AllFit(mem, refs, overlap)
           THEN LET m2 == FadeAll(mem, refs, 0, overlap)
                IN  /\ batch' = m2.b /\ heap' = m2.h
                    /\ pc' = "overlay" /\ err' = err
           ELSE /\ pc' = "raised" /\ err' = "RuntimeError"
                /\ UNCHANGED <<batch, heap>>
    /\ UNCHANGED <<fn, tnsr, tnsr0, max_winsize, overlap_ratio, device, modelKind,
                   winsize, overlap, stride, window_range, idx, chunks, calls,
                   result, written>>
    /\ UNCHANGED nonWinVars

\* Mutant of OverlayEnd: the end is not clamped to the length of the result.
OverlayEndUnclamped(beg, ws, len_result) == beg + ws

\* end = min(beg + winsize, len_result)
OverlayEnd(beg, ws, len_result) == Min(beg + ws, len_result)

\* Lines 175-178 for the pairs k.. of zip(begs, chunks): the record
\* [res, idxs, ok] of the result tensor, the indices written and whether the
\* shapes of result[beg:end] and ch[0][:chunksize] agreed every time.
RECURSIVE Overlay(_, _, _, _, _, _)
Overlay(acc, mem, begs, chs, ws, k) ==
    IF k > Min(Len(begs), Len(chs)) \/ ~acc.ok THEN acc
    ELSE LET beg == begs[k]
             end == OverlayEnd(beg, ws, Len(acc.res))
             chunksize == end - beg
             b == SliceIndex(beg, Len(acc.res))
             e == SliceIndex(end, Len(acc.res))
             src == PySliceTo(Deref(mem, chs[k]), chunksize)
             dstLen == IF b < e THEN e - b ELSE 0
         IN  IF dstLen # Len(src)
             THEN [acc EXCEPT !.ok = FALSE]
             ELSE Overlay([res |-> [j \in 1..Len(acc.res) |->
                                      IF j > b /\ j <= e
                                      THEN RAdd(acc.res[j], src[j - b])
                                      ELSE acc.res[j]],
                           idxs |-> acc.idxs \cup {j - 1 : j \in (b + 1)..e},
                           ok |-> TRUE],
                          mem, begs, chs, ws, k + 1)

\* Lines 173-180: the faded chunks are summed into a new zero tensor.
AR_Overlay ==
    /\ pc = "overlay"
    /\ LET mem == [b |-> batch, h |-> heap]
           o == Overlay([res |-> Zeros(n), idxs |-> {}, ok |-> TRUE],
                        mem, window_range, chunks, winsize, 1)
       IN  IF o.ok
           THEN /\ result' = o.res /\ written' = o.idxs
                /\ pc' = "done" /\ err' = err
           ELSE /\ pc' = "raised" /\ err' = "RuntimeError"
                /\ UNCHANGED <<result, written>>
    /\ UNCHANGED <<fn, tnsr, tnsr0, max_winsize, overlap_ratio, device, modelKind,
                   winsize, overlap, stride, window_range, idx, batch, heap, chunks,
                   calls>>
    /\ UNCHANGED nonWinVars

NextWindow == WR_Setup \/ WR_Iterate \/ WR_Return \/ AR_FadeIn \/ AR_FadeOut \/ AR_Overlay

SpecWindow == InitWindow /\ [][NextWindow]_vars

\* The same calls on unit-constant signals, with the progress of the single thread
\* that executes them: a step that can be taken is taken.
InitUnitWindow == InitWindow /\ \A k \in 1..n : tnsr[k] = One

FairSpecUnitWindow ==
    /\ InitUnitWindow /\ [][NextWindow]_vars
    /\ WF_vars(WR_Setup) /\ WF_vars(WR_Iterate) /\ WF_vars(WR_Return)

\* ------------------------------------------- cross-fade of two chunks
\* Two adjacent unit-constant chunks overlapping by fade_len samples: the first
\* is faded out, the second faded in, each by one call of linear_fade.
InitFade ==
    /\ fade_len \in 0..MaxFade
    /\ \E l1, l2 \in Max(1, fade_len)..MaxChunk : ch1 = Ones(l1) /\ ch2 = Ones(l2)
    /\ fpc = "start"
    /\ IdleWindow /\ IdleMerge /\ IdleStt /\ IdleWorker /\ IdleGui

\* linear_fade(ch1, fade_out=fade_len)
F_FadeOutFirst ==
    /\ fpc = "start"
    /\ IF FadeFits(ch1, fade_len)
       THEN ch1' = LinearFade(ch1, 0, fade_len) /\ fpc' = "faded_out"
       ELSE ch1' = ch1 /\ fpc' = "raised"
    /\ UNCHANGED <<fade_len, ch2>>
    /\ UNCHANGED nonFadeVars

\* linear_fade(ch2, fade_in=fade_len)
F_FadeInSecond ==
    /\ fpc = "faded_out"
    /\ IF FadeFits(ch2, fade_len)
       THEN ch2' = LinearFade(ch2, fade_len, 0) /\ fpc' = "done"
       ELSE ch2' = ch2 /\ fpc' = "raised"
    /\ UNCHANGED <<fade_len, ch1>>
    /\ UNCHANGED nonFadeVars

NextFade == F_FadeOutFirst \/ F_FadeInSecond

SpecFade == InitFade /\ [][NextFade]_vars

\* --------------------------------------------- merge_overlapping_strings
\* Strings are sequences of one-character strings.
MaxStr == 3
MaxRange == 5

Alphabet == {"a", "b"}

SmallStrings == UNION {[1..len -> Alphabet] : len \in 0..MaxStr}

\* The literal cases of the docstring and of the specification.
ExamplePairs ==
    { << <<"1", "2", "3", "4", "5", "6", "7", "8", "9">>,
         <<"7", "7", "8", "8", "9", "9", "a", "b", "c", "d", "e", "f">> >>,
      << <<"h", "e", "l", "l", "o", " ", "w", "o", "r", "l", "d">>,
         <<"w", "o", "r", "l", "d", " ", "p", "e", "a", "c", "e">> >>,
      << <<"a", "b", "c">>, <<"d", "e", "f">> >> }

Thresholds == {<<0, 1>>, <<1, 2>>, <<4, 5>>, <<1, 1>>}

\* The next row of the edit-distance table: cur holds its entries so far, prev
\* is the row of the previous character of the first string.
RECURSIVE NextRow(_, _, _, _)
NextRow(prev, c, b, cur) ==
    IF Len(cur) = Len(b) + 1 THEN cur
    ELSE LET j == Len(cur)
             sub == prev[j] + (IF b[j] = c THEN 0 ELSE 2)
             del == prev[j + 1] + 1
             ins == cur[j] + 1
         IN  NextRow(prev, c, b, Append(cur, Min(sub, Min(del, ins))))

RECURSIVE DistRows(_, _, _)
DistRows(a, b, prev) ==
    IF a = <<>> THEN prev[Len(b) + 1]
    ELSE DistRows(Tail(a), b, NextRow(prev, Head(a), b, <<prev[1] + 1>>))

\* The edit distance Levenshtein.ratio is based on: insertion and deletion
\* cost 1, substitution costs 2.
EditDistance(a, b) == DistRows(a, b, [j \in 1..(Len(b) + 1) |-> j - 1])

\* Levenshtein.ratio(a, b) = (lensum - distance) / lensum, 1.0 for two empty strings.
Ratio(a, b) ==
    LET lensum == Len(a) + Len(b)
    IN  IF lensum = 0 THEN One ELSE Rat(lensum - EditDistance(a, b), lensum)

\* Mutant of ScoreAt: the prefix of str1 is compared instead of its suffix.
ScoreAtPrefixes(s1, s2, i) == Ratio(PySliceTo(s1, i), PySliceTo(s2, i))

\* Mutant of ScoreAt: the suffix of s1 has exactly i characters, none for i = 0
\* (str1[len(str1) - i:] in place of str1[-i:]).
ScoreAtExactSuffix(s1, s2, i) ==
    Ratio(PySliceFrom(s1, Max(Len(s1) - i, 0)), PySliceTo(s2, i))

\* Line 68: the score of candidate length i.
ScoreAt(s1, s2, i) == Ratio(PySliceFrom(s1, -i), PySliceTo(s2, i))

\* Mutant of MeetsThreshold: score > thresh.
MeetsThresholdStrict(score, th) == RatLess(th, score)

\* Line 69: score >= thresh
MeetsThreshold(score, th) == ~RatLess(score, th)

\* Lines 67-71 from candidate i on: <<match, match_score>> after the loop.
RECURSIVE MergeScan(_, _, _, _, _, _, _)
MergeScan(s1, s2, th, mr, i, m, ms) ==
    IF i >= mr THEN <<m, ms>>
    ELSE LET score == ScoreAt(s1, s2, i)
         IN  IF MeetsThreshold(score, th)
             THEN MergeScan(s1, s2, th, mr, i + 1, i, score)
             ELSE MergeScan(s1, s2, th, mr, i + 1, m, ms)

\* Lines 64-65
RangeOf(s1, s2, mr) == IF mr = <<>> THEN Min(Len(s1), Len(s2)) ELSE mr[1]

\* Mutant of MergedOf: the overlap is taken from str2 (str1[:-match] + str2, the
\* variant left commented out in lines 76-77).
MergedOfTrimmedStr1(s1, s2, m) == (IF m = 0 THEN s1 ELSE PySliceTo(s1, -m)) \o s2

\* Line 73: result = str1 + str2[match:]
MergedOf(s1, s2, m) == s1 \o PySliceFrom(s2, m)

\* Mutant of MergeOverlappingStrings: match_score starts at 0 instead of -1.
MergeOverlappingStringsFromZero(s1, s2, th, mr) ==
    LET r == MergeScan(s1, s2, th, RangeOf(s1, s2, mr), 0, 0, Zero)
    IN  [merged |-> MergedOf(s1, s2, r[1]), match |-> r[1], match_score |-> r[2]]

\* merge_overlapping_strings(str1, str2, thresh, max_range)
MergeOverlappingStrings(s1, s2, th, mr) ==
    LET r == MergeScan(s1, s2, th, RangeOf(s1, s2, mr), 0, 0, <<-1, 1>>)
    IN  [merged |-> MergedOf(s1, s2, r[1]), match |-> r[1], match_score |-> r[2]]

InitMerge ==
    /\ \E pair \in (SmallStrings \X SmallStrings) \cup ExamplePairs :
          str1 = pair[1] /\ str2 = pair[2]
    /\ thresh \in Thresholds
    /\ max_range \in {<<>>} \cup {<<k>> : k \in 0..MaxRange}
    /\ merged = <<>> /\ match = 0 /\ match_score = <<-1, 1>>
    /\ mpc = "start"
    /\ IdleWindow /\ IdleFade /\ IdleStt /\ IdleWorker /\ IdleGui

M_Merge ==
    /\ mpc = "start"
    /\ LET r == MergeOverlappingStrings(str1, str2, thresh, max_range)
       IN  /\ merged' = r.merged
           /\ match' = r.match
           /\ match_score' = r.match_score
    /\ mpc' = "done"
    /\ UNCHANGED <<str1, str2, thresh, max_range>>
    /\ UNCHANGED nonMergeVars

NextMerge == M_Merge

SpecMerge == InitMerge /\ [][NextMerge]_vars

\* ------------------------------------------------ windowed_stt_rendering
\* Stands for the default max_overlap_characters = 1000: a max_range above the
\* length of every text that is merged here.
MaxOverlapChars == 10

\* Every variable of the window group but pc.
winData == <<fn, err, tnsr, tnsr0, max_winsize, overlap_ratio, device, modelKind,
             winsize, overlap, stride, window_range, idx, batch, heap, chunks,
             calls, result, written>>

nonSttVars == <<fadeVars, mergeVars, workerVars, guiVars>>

InitStt ==
    /\ fn = "windowed_stt_rendering"
    /\ pc = "start" /\ err = ""
    /\ \E len \in 0..MaxN : tnsr = Ones(len)
    /\ tnsr0 = tnsr
    /\ max_winsize \in -1..MaxWinsize
    /\ overlap_ratio \in OverlapRatios
    /\ device \in Devices /\ modelKind = "stt"
    /\ winsize = 0 /\ overlap = 0 /\ stride = 0 /\ window_range = <<>> /\ idx = 0
    /\ batch = <<>> /\ heap = <<>> /\ chunks = <<>> /\ calls = <<>>
    /\ result = <<>> /\ written = {}
    /\ overlap_merge_threshold \in Thresholds
    /\ max_overlap_characters \in {<<>>, <<1>>, <<MaxOverlapChars>>}
    /\ merged_text = <<>> /\ match_scores = <<>> /\ midx = 0 /\ ret = NoneValue
    /\ IdleFade /\ IdleMerge /\ IdleWorker /\ IdleGui

\* Lines 194-200: the 4-tuple of windowed_run is unpacked, the accumulator and
\* the list of scores start empty.
ST_Unpack ==
    /\ fn = "windowed_stt_rendering" /\ pc = "unpack"
    /\ merged_text' = <<>> /\ match_scores' = <<>> /\ midx' = 1
    /\ pc' = "merge_loop"
    /\ UNCHANGED <<winData, overlap_merge_threshold, max_overlap_characters, ret>>
    /\ UNCHANGED nonSttVars

\* Lines 204-206: the chunk ch is merged into the accumulator and the score of
\* the merge is appended.
MergeStep(acc, scores, ch, th, mr) ==
    LET r == MergeOverlappingStrings(acc, ch, th, mr)
    IN  [merged |-> r.merged, scores |-> Append(scores, r.match_score)]

\* Lines 201-206: one iteration of the merge loop.
ST_Merge ==
    /\ fn = "windowed_stt_rendering" /\ pc = "merge_loop"
    /\ midx <= Len(chunks)
    /\ LET r == MergeStep(merged_text, match_scores, heap[chunks[midx]],
                          overlap_merge_threshold, max_overlap_characters)
       IN  /\ merged_text' = r.merged
           /\ match_scores' = r.scores
    /\ midx' = midx + 1
    /\ UNCHANGED <<pc, winData, overlap_merge_threshold, max_overlap_characters, ret>>
    /\ UNCHANGED nonSttVars

\* Line 208: return merged, match_scores
ST_Return ==
    /\ fn = "windowed_stt_rendering" /\ pc = "merge_loop"
    /\ midx > Len(chunks)
    /\ ret' = TupleValue(<<merged_text, match_scores>>)
    /\ pc' = "done"
    /\ UNCHANGED <<winData, overlap_merge_threshold, max_overlap_characters,
                   merged_text, match_scores, midx>>
    /\ UNCHANGED nonSttVars

NextStt == WR_Setup \/ WR_Iterate \/ WR_Return \/ ST_Unpack \/ ST_Merge \/ ST_Return

SpecStt == InitStt /\ [][NextStt]_vars

\* ------------------------------------------------------------ the workers
\* ProfileWorker jobs (profiles/__init__.py) and the three subclasses of the
\* repository: wrapped_run is invoked on the worker's thread, abort() can be
\* invoked at any moment by a caller on another thread.
MaxQuack == 4

\* ProfileDialog.PROGRESS_BAR_RANGE
ProgressMin == 0

ProgressMax == 100

\* WavToTextSileroWorker.OVERLAP_MERGE_THRESHOLD = 0.9
OVERLAP_MERGE_THRESHOLD == <<9, 10>>

Workers == {"WavToTextSileroWorker", "ExampleWorker", "ToUpperWorker"}

\* The variables no worker touches.
nonWorkerVars == <<fadeVars, mergeVars, guiVars>>

\* The plan of the window loop and its inputs.
winPlan == <<fn, tnsr0, max_winsize, overlap_ratio, device, modelKind,
             winsize, overlap, stride, window_range, result, written>>

sttParams == <<overlap_merge_threshold, max_overlap_characters>>

exampleVars == <<quack, quack_count, qi, qresult, text>>

\* A worker as its constructor leaves it, with the arguments of its run.
WorkerConstructed ==
    /\ fn \in Workers
    /\ err = ""
    /\ IF fn = "WavToTextSileroWorker"
       THEN /\ \E len \in 1..MaxN : tnsr = Ones(len)
            /\ max_winsize \in 0..MaxWinsize
            /\ overlap_ratio \in {r \in OverlapRatios : RatLess(r, One)}
            /\ device \in Devices /\ modelKind = "stt"
            /\ overlap_merge_threshold = OVERLAP_MERGE_THRESHOLD
            /\ max_overlap_characters = <<MaxOverlapChars>>
       ELSE /\ tnsr = <<>> /\ max_winsize = 0 /\ overlap_ratio = <<0, 1>>
            /\ device = "cpu" /\ modelKind = "fresh"
            /\ overlap_merge_threshold = <<1, 1>> /\ max_overlap_characters = <<>>
    /\ tnsr0 = tnsr
    /\ winsize = 0 /\ overlap = 0 /\ stride = 0 /\ window_range = <<>> /\ idx = 0
    /\ batch = <<>> /\ heap = <<>> /\ chunks = <<>> /\ calls = <<>>
    /\ result = <<>> /\ written = {}
    /\ merged_text = <<>> /\ match_scores = <<>> /\ midx = 0 /\ ret = NoneValue
    /\ abort_flag = FALSE /\ progress = <<>> /\ emitted = <<>>
    /\ IF fn = "ExampleWorker"
       THEN quack \in BOOLEAN /\ quack_count \in 1..MaxQuack
       ELSE quack = FALSE /\ quack_count = 0
    /\ qi = 0 /\ qresult = <<>>
    /\ IF fn = "ToUpperWorker" THEN text \in SmallStrings ELSE text = <<>>
    /\ IdleFade /\ IdleMerge

\* wrapped_run has just been invoked on the worker's thread.
InitWorker == WorkerConstructed /\ pc = "wrapped_run" /\ IdleGui

\* ProfileWorker.abort, lines 320-326
Abort ==
    /\ ~abort_flag
    /\ abort_flag' = TRUE
    /\ UNCHANGED <<progress, emitted, exampleVars>>
    /\ UNCHANGED <<winVars, sttVars, nonWorkerVars>>

\* Mutant of AbortSeen: the flag is not looked at.
AbortNeverSeen(flag) == FALSE

\* if self._abort:
AbortSeen(flag) == flag

\* Unpacking v into k names: TypeError unless v is a tuple of k items.
Unpacks(v, k) == v.tag = "tuple" /\ Len(v.items) = k

\* Mutant of Percent: the position after the current one is reported.
PercentOfNext(i, total) == IntTrunc((i + 1) * 100, total)

\* int(i / total * 100)
Percent(i, total) == IntTrunc(i * 100, total)

\* WavToTextSileroWorker.run, lines 228-235: the model is loaded, the audio
\* prepared, and windowed_stt_rendering calls windowed_run.
SI_Run ==
    /\ fn = "WavToTextSileroWorker" /\ pc = "wrapped_run"
    /\ pc' = "start"
    /\ UNCHANGED <<winData, sttVars, workerVars, nonWorkerVars>>

\* WavToTextSileroWorker.windowed_run, lines 157-165: as lines 129-137 of
\* stt_utils.windowed_run.
W_Setup == fn = "WavToTextSileroWorker" /\ WR_Setup

\* Lines 166-168: the abort check of a window iteration.  windowed_run returns
\* None, which the caller unpacks into four names at lines 185-187.
W_CheckAbort ==
    /\ fn = "WavToTextSileroWorker" /\ pc = "window_loop"
    /\ idx <= Len(window_range)
    /\ IF AbortSeen(abort_flag)
       THEN /\ ret' = NoneValue
            /\ IF Unpacks(NoneValue, 4)
               THEN pc' = "unpacked" /\ err' = err
               ELSE pc' = "raised" /\ err' = "TypeError"
       ELSE /\ pc' = "window_progress"
            /\ UNCHANGED <<ret, err>>
    /\ UNCHANGED <<winPlan, tnsr, idx, batch, heap, chunks, calls>>
    /\ UNCHANGED <<sttParams, merged_text, match_scores, midx>>
    /\ UNCHANGED <<workerVars, nonWorkerVars>>

\* Line 169: self.update_progress(int(i / num_windows * 100))
W_Progress ==
    /\ fn = "WavToTextSileroWorker" /\ pc = "window_progress"
    /\ progress' = Append(progress, Percent(idx, Len(window_range)))
    /\ pc' = "window_model"
    /\ UNCHANGED <<abort_flag, emitted, exampleVars>>
    /\ UNCHANGED <<winData, sttVars, nonWorkerVars>>

\* Lines 171-176: the window is copied into the batch buffer, the model is
\* called and its first text is collected.
W_Model ==
    /\ fn = "WavToTextSileroWorker" /\ pc = "window_model"
    /\ LET beg == window_range[idx]
           chunk == PySlice(tnsr, beg, beg + winsize)
       IN  IF Len(chunk) > Len(batch)
           THEN /\ pc' = "raised" /\ err' = "RuntimeError"
                /\ UNCHANGED <<tnsr, batch, heap, chunks, calls, idx>>
           ELSE \E txt \in ModelTexts(fn) :
                LET filled == FillBatch(batch, tnsr, beg, winsize)
                    out == Len(heap) + 1
                IN  /\ batch' = filled
                    /\ tnsr' = InputAfterFill(tnsr, filled)
                    /\ heap' = Append(heap, HookOutput(fn, filled, txt))
                    /\ chunks' = AppendChunk(chunks, out)
                    /\ calls' = Append(calls, [beg |-> beg, input |-> filled, out |-> out])
                    /\ idx' = idx + 1
                    /\ pc' = "window_loop" /\ err' = err
    /\ UNCHANGED <<winPlan, sttVars, workerVars, nonWorkerVars>>

\* Lines 177 and 185-191: windowed_run returns its 4-tuple, which is unpacked;
\* the accumulator and the list of scores start empty.
W_Return ==
    /\ fn = "WavToTextSileroWorker" /\ pc = "window_loop"
    /\ idx > Len(window_range)
    /\ IF Unpacks(TupleValue(<<chunks, window_range, winsize, overlap>>), 4)
       THEN pc' = "merge_loop" /\ err' = err
       ELSE pc' = "raised" /\ err' = "TypeError"
    /\ merged_text' = <<>> /\ match_scores' = <<>> /\ midx' = 1
    /\ UNCHANGED <<winPlan, tnsr, idx, batch, heap, chunks, calls>>
    /\ UNCHANGED <<sttParams, ret, workerVars, nonWorkerVars>>

\* Lines 192-194: the abort check of a merge step.  windowed_stt_rendering
\* returns None, which run unpacks into two names at line 235.
W_MergeCheckAbort ==
    /\ fn = "WavToTextSileroWorker" /\ pc = "merge_loop"
    /\ midx <= Len(chunks)
    /\ IF AbortSeen(abort_flag)
       THEN /\ ret' = NoneValue
            /\ IF Unpacks(NoneValue, 2)
               THEN pc' = "run_returned" /\ err' = err
               ELSE pc' = "raised" /\ err' = "TypeError"
       ELSE /\ pc' = "merge_progress"
            /\ UNCHANGED <<ret, err>>
    /\ UNCHANGED <<winPlan, tnsr, idx, batch, heap, chunks, calls>>
    /\ UNCHANGED <<sttParams, merged_text, match_scores, midx>>
    /\ UNCHANGED <<workerVars, nonWorkerVars>>

\* Line 195: self.update_progress(int(i / num_chunks * 100))
W_MergeProgress ==
    /\ fn = "WavToTextSileroWorker" /\ pc = "merge_progress"
    /\ progress' = Append(progress, Percent(midx, Len(chunks)))
    /\ pc' = "merge_step"
    /\ UNCHANGED <<abort_flag, emitted, exampleVars>>
    /\ UNCHANGED <<winData, sttVars, nonWorkerVars>>

\* Lines 198-200: the chunk is merged and the score of the merge appended.
W_Merge ==
    /\ fn = "WavToTextSileroWorker" /\ pc = "merge_step"
    /\ LET r == MergeStep(merged_text, match_scores, heap[chunks[midx]],
                          overlap_merge_threshold, max_overlap_characters)
       IN  /\ merged_text' = r.merged
           /\ match_scores' = r.scores
    /\ midx' = midx + 1
    /\ pc' = "merge_loop"
    /\ UNCHANGED <<winData, sttParams, ret, workerVars, nonWorkerVars>>

\* Lines 202 and 235-239: windowed_stt_rendering returns the pair, run unpacks
\* it and returns the text.
W_MergeReturn ==
    /\ fn = "WavToTextSileroWorker" /\ pc = "merge_loop"
    /\ midx > Len(chunks)
    /\ IF Unpacks(TupleValue(<<merged_text, match_scores>>), 2)
       THEN pc' = "run_returned" /\ err' = err /\ ret' = StrValue(merged_text)
       ELSE pc' = "raised" /\ err' = "TypeError" /\ ret' = ret
    /\ UNCHANGED <<winPlan, tnsr, idx, batch, heap, chunks, calls>>
    /\ UNCHANGED <<sttParams, merged_text, match_scores, midx>>
    /\ UNCHANGED <<workerVars, nonWorkerVars>>

\* ExampleWorker.run, lines 28-30; the loop is skipped unless quack is set.
EX_Run ==
    /\ fn = "ExampleWorker" /\ pc = "wrapped_run"
    /\ qresult' = <<"Result of example computation">>
    /\ qi' = 0
    /\ pc' = "quack_loop"
    /\ UNCHANGED <<abort_flag, progress, emitted, quack, quack_count, text>>
    /\ UNCHANGED <<winData, sttVars, nonWorkerVars>>

\* Lines 31-33: the abort check of an iteration; run returns None.
EX_CheckAbort ==
    /\ fn = "ExampleWorker" /\ pc = "quack_loop"
    /\ quack /\ qi < quack_count
    /\ IF AbortSeen(abort_flag)
       THEN ret' = NoneValue /\ pc' = "run_returned"
       ELSE ret' = ret /\ pc' = "quack_step"
    /\ UNCHANGED <<winData, sttParams, merged_text, match_scores, midx>>
    /\ UNCHANGED <<workerVars, nonWorkerVars>>

\* Lines 34-36, with nvals = maxval - minval of the dialog's range.
EX_Quack ==
    /\ fn = "ExampleWorker" /\ pc = "quack_step"
    /\ progress' = Append(progress,
                          IntTrunc(qi * (ProgressMax - ProgressMin), quack_count)
                              + ProgressMin)
    /\ qresult' = Append(qresult, <<qi + 1, "Quack!">>)
    /\ qi' = qi + 1
    /\ pc' = "quack_loop"
    /\ UNCHANGED <<abort_flag, emitted, quack, quack_count, text>>
    /\ UNCHANGED <<winData, sttVars, nonWorkerVars>>

\* Line 37: return result
EX_Return ==
    /\ fn = "ExampleWorker" /\ pc = "quack_loop"
    /\ ~quack \/ qi >= quack_count
    /\ ret' = StrValue(qresult)
    /\ pc' = "run_returned"
    /\ UNCHANGED <<winData, sttParams, merged_text, match_scores, midx>>
    /\ UNCHANGED <<workerVars, nonWorkerVars>>

\* str.upper() on the alphabet of the model.
Upper(s) == [k \in 1..Len(s) |-> IF s[k] = "a" THEN "A" ELSE IF s[k] = "b" THEN "B" ELSE s[k]]

\* ToUpperWorker.run, lines 20-22
UP_Run ==
    /\ fn = "ToUpperWorker" /\ pc = "wrapped_run"
    /\ ret' = StrValue(Upper(text))
    /\ pc' = "run_returned"
    /\ UNCHANGED <<winData, sttParams, merged_text, match_scores, midx>>
    /\ UNCHANGED <<workerVars, nonWorkerVars>>

\* self.resultSignal.emit(result)
EmitResult(sent, value) == Append(sent, value)

\* ProfileWorker.wrapped_run, line 339: run has returned, its result is emitted.
WK_Emit ==
    /\ fn \in Workers /\ pc = "run_returned"
    /\ emitted' = EmitResult(emitted, ret)
    /\ pc' = "done"
    /\ UNCHANGED <<abort_flag, progress, exampleVars>>
    /\ UNCHANGED <<winData, sttVars, nonWorkerVars>>

NextWorker ==
    \/ Abort \/ WK_Emit
    \/ SI_Run \/ W_Setup \/ W_CheckAbort \/ W_Progress \/ W_Model \/ W_Return
    \/ W_MergeCheckAbort \/ W_MergeProgress \/ W_Merge \/ W_MergeReturn
    \/ EX_Run \/ EX_CheckAbort \/ EX_Quack \/ EX_Return
    \/ UP_Run

SpecWorker == InitWorker /\ [][NextWorker]_vars

\* ---------------------------------------------------- the three renderers
\* windowed_run and the two rendering functions built on it, on unit-constant
\* signals.
SpecRender == (InitUnitWindow \/ InitStt) /\ [][NextWindow \/ NextStt]_vars

\* ------------------------------------------------------- a failing model
\* The same calls with a model callable that can raise at any call, on
\* unit-constant signals.
InitFailing ==
    /\ fn \in {"windowed_run", "windowed_audio_rendering", "windowed_stt_rendering"}
    /\ pc = "start" /\ err = ""
    /\ \E len \in 0..MaxN : tnsr = Ones(len)
    /\ tnsr0 = tnsr
    /\ max_winsize \in -1..MaxWinsize
    /\ overlap_ratio \in OverlapRatios
    /\ device \in Devices /\ modelKind = "raising"
    /\ winsize = 0 /\ overlap = 0 /\ stride = 0 /\ window_range = <<>> /\ idx = 0
    /\ batch = <<>> /\ heap = <<>> /\ chunks = <<>> /\ calls = <<>>
    /\ result = <<>> /\ written = {}
    /\ IF fn = "windowed_stt_rendering"
       THEN /\ overlap_merge_threshold = <<4, 5>>
            /\ max_overlap_characters = <<MaxOverlapChars>>
       ELSE /\ overlap_merge_threshold = <<1, 1>>
            /\ max_overlap_characters = <<>>
    /\ merged_text = <<>> /\ match_scores = <<>> /\ midx = 0 /\ ret = NoneValue
    /\ IdleFade /\ IdleMerge /\ IdleWorker /\ IdleGui

\* Mutant of PcAfterModelError: the exception is caught around the call and the
\* loop goes on with the next window.
PcAfterModelErrorSkipped(f) == "window_loop"

\* Where control is after model(batch) has raised in a call made for f: no
\* try statement encloses line 144 or the calls of windowed_run, the exception
\* leaves them all.
PcAfterModelError(f) == "raised"

\* Lines 140-144 with a model that raises: the batch is filled, the call is made
\* and fails; no output is collected.
WR_ModelRaises ==
    /\ modelKind = "raising"
    /\ pc = "window_loop"
    /\ idx <= Len(window_range)
    /\ LET beg == window_range[idx]
           filled == FillBatch(batch, tnsr, beg, winsize)
       IN  /\ Len(PySlice(tnsr, beg, beg + winsize)) <= Len(batch)
           /\ batch' = filled
           /\ tnsr' = InputAfterFill(tnsr, filled)
           /\ calls' = Append(calls, [beg |-> beg, input |-> filled, out |-> -1])
    /\ err' = "ModelError"
    /\ pc' = PcAfterModelError(fn)
    /\ idx' = idx + 1
    /\ UNCHANGED <<fn, tnsr0, max_winsize, overlap_ratio, device, modelKind,
                   winsize, overlap, stride, window_range, heap, chunks,
                   result, written>>
    /\ UNCHANGED nonWinVars

NextFailing == NextWindow \/ NextStt \/ WR_ModelRaises

SpecFailing == InitFailing /\ [][NextFailing]_vars

\* ------------------------------------------------------ SavedStateTracker
\* utils.py, lines 84-133: one tracker and the calls made on it.  The length of
\* the call sequences explored.
MaxCalls == 4

nonTrackerVars == <<winVars, fadeVars, mergeVars, sttVars, workerVars, runVars>>

InitTracker ==
    /\ IdleTracker /\ IdleRun
    /\ IdleWindow /\ IdleFade /\ IdleMerge /\ IdleStt /\ IdleWorker

\* One more call in the tracker's history.
Logged(op, answer, returned) ==
    Append(tlog, [op |-> op, answer |-> answer, returned |-> returned])

\* Lines 104-108: edit()
T_Edit ==
    /\ Len(tlog) < MaxCalls
    /\ has_unsaved_changes' = TRUE
    /\ tlog' = Logged("edit", "not asked", "None")
    /\ UNCHANGED <<has_been_deleted, dialog>>
    /\ UNCHANGED nonTrackerVars

\* Lines 110-117: save(saved_dict), which shows a SavedInfoDialog for a dict.
T_Save ==
    /\ Len(tlog) < MaxCalls
    /\ \E saved_dict \in {"None", "dict"} :
          dialog' = IF saved_dict # "None" THEN "SavedInfoDialog" ELSE dialog
    /\ has_unsaved_changes' = FALSE
    /\ tlog' = Logged("save", "not asked", "None")
    /\ UNCHANGED has_been_deleted
    /\ UNCHANGED nonTrackerVars

\* Mutant of DeleteProceeds: the user's answer is not looked at.
DeleteProceedsRegardless(unsaved, user_wants_delete) == TRUE

\* Lines 123-129: delete() goes on to mark the state deleted unless there are
\* unsaved changes and the user declined.
DeleteProceeds(unsaved, user_wants_delete) == ~(unsaved /\ ~user_wants_delete)

\* Lines 119-133: delete(); the SaveWarningDialog is executed only if there are
\* unsaved changes, and its exec_() is true iff the user accepted.
T_Delete ==
    /\ Len(tlog) < MaxCalls
    /\ \E user_wants_delete \in (IF has_unsaved_changes THEN BOOLEAN ELSE {FALSE}) :
          LET answer == IF ~has_unsaved_changes THEN "not asked"
                        ELSE IF user_wants_delete THEN "accepted" ELSE "rejected"
          IN  IF DeleteProceeds(has_unsaved_changes, user_wants_delete)
              THEN /\ has_been_deleted' = TRUE
                   /\ tlog' = Logged("delete", answer, "True")
              ELSE /\ has_been_deleted' = has_been_deleted
                   /\ tlog' = Logged("delete", answer, "False")
    /\ dialog' = IF has_unsaved_changes THEN "SaveWarningDialog" ELSE dialog
    /\ UNCHANGED has_unsaved_changes
    /\ UNCHANGED nonTrackerVars

NextTracker == T_Edit \/ T_Save \/ T_Delete

SpecTracker == InitTracker /\ [][NextTracker]_vars

\* ------------------------------------------------------- Profile.run_worker
\* profiles/__init__.py, lines 224-254: the GUI thread runs run_worker, the
\* worker's QThread runs wrapped_run.  Qt's rules are the ones of PySide2/Qt 5:
\* a slot connected with the default AutoConnection is called directly if its
\* receiver lives on the emitting thread and is queued for the receiver's thread
\* otherwise; queued calls are made by the event loop of that thread;
\* QThread.run() enters the event loop (exec) after `started` was emitted, and
\* leaves it at once if quit() was called before; wait() blocks until the
\* thread has finished.
nonRunVars == <<fadeVars, mergeVars, trackerVars>>

workerState == <<winVars, sttVars, workerVars>>

InitRunWorker ==
    /\ WorkerConstructed /\ pc = "constructed"
    /\ IdleTracker
    /\ rpc = "start" /\ with_dialog \in BOOLEAN /\ dialog_ok = "None"
    /\ tpc = "not started" /\ events = <<>> /\ quit_flag = FALSE

\* Lines 228-241: the signals are connected, the worker is moved to its thread
\* and the thread is started; with a dialog the GUI thread enters dialog.exec_().
RW_Start ==
    /\ rpc = "start"
    /\ tpc' = "starting"
    /\ rpc' = IF with_dialog THEN "dialog_exec" ELSE "quit"
    /\ UNCHANGED <<with_dialog, dialog_ok, events, quit_flag>>
    /\ UNCHANGED <<workerState, nonRunVars>>

\* Line 239: thread.started is emitted on the new thread, where the worker
\* lives, so wrapped_run is called there, before the thread's event loop runs.
TH_Started ==
    /\ tpc = "starting"
    /\ tpc' = "wrapped_run"
    /\ pc' = "wrapped_run"
    /\ UNCHANGED <<rpc, with_dialog, dialog_ok, events, quit_flag>>
    /\ UNCHANGED <<winData, sttVars, workerVars, nonRunVars>>

\* wrapped_run has returned (or run has raised) and QThread.run() calls exec():
\* the event loop starts, unless quit() was called already.
TH_Exec ==
    /\ tpc = "wrapped_run" /\ pc \in {"done", "raised"}
    /\ tpc' = IF quit_flag THEN "finished" ELSE "event_loop"
    /\ UNCHANGED <<rpc, with_dialog, dialog_ok, events, quit_flag>>
    /\ UNCHANGED <<workerState, nonRunVars>>

\* The event loop of the worker's thread makes a queued call of worker.abort
\* (lines 320-326).
TH_DeliverAbort ==
    /\ tpc = "event_loop" /\ events # <<>>
    /\ events' = Tail(events)
    /\ abort_flag' = TRUE
    /\ UNCHANGED <<rpc, with_dialog, dialog_ok, tpc, quit_flag>>
    /\ UNCHANGED <<progress, emitted, exampleVars>>
    /\ UNCHANGED <<winVars, sttVars, nonRunVars>>

\* The event loop sees the quit() and the thread finishes.
TH_Quit ==
    /\ tpc = "event_loop" /\ quit_flag
    /\ tpc' = "finished"
    /\ UNCHANGED <<rpc, with_dialog, dialog_ok, events, quit_flag>>
    /\ UNCHANGED <<workerState, nonRunVars>>

\* Line 238: worker.moveToThread(thread)
WorkerAffinity == "worker thread"

\* AutoConnection at emission: direct if the receiver lives on the emitting thread.
DirectCall(receiver_thread, emitting_thread) == receiver_thread = emitting_thread

\* Lines 241-244: dialog.exec_() returns; the dialog can be rejected (CANCEL) at
\* any time and accepted once on_finished_worker has shown the result; after a
\* rejection abortWorkerSignal is emitted on the GUI thread.
RW_DialogClosed ==
    /\ rpc = "dialog_exec"
    /\ \E ok \in {"accepted", "rejected"} :
          /\ ok = "accepted" => emitted # <<>>
          /\ dialog_ok' = ok
          /\ IF ok = "rejected"
             THEN IF DirectCall(WorkerAffinity, "gui thread")
                  THEN abort_flag' = TRUE /\ events' = events
                  ELSE abort_flag' = abort_flag /\ events' = Append(events, "abort")
             ELSE abort_flag' = abort_flag /\ events' = events
    /\ rpc' = "quit"
    /\ UNCHANGED <<with_dialog, tpc, quit_flag>>
    /\ UNCHANGED <<progress, emitted, exampleVars>>
    /\ UNCHANGED <<winVars, sttVars, nonRunVars>>

\* Line 250: thread.quit()
RW_Quit ==
    /\ rpc = "quit"
    /\ quit_flag' = TRUE
    /\ rpc' = "wait"
    /\ UNCHANGED <<with_dialog, dialog_ok, tpc, events>>
    /\ UNCHANGED <<workerState, nonRunVars>>

\* Mutant of WaitReturns: the wait gives up at once (a wait(0)).
WaitReturnsAtOnce(thread_state) == TRUE

\* thread.wait() without a deadline returns once the thread has finished (or if
\* it was never started).
WaitReturns(thread_state) == thread_state \in {"finished", "not started"}

\* Lines 251-254: successful_thread = thread.wait(), and run_worker returns.
RW_Wait ==
    /\ rpc = "wait"
    /\ WaitReturns(tpc)
    /\ rpc' = "returned"
    /\ UNCHANGED <<with_dialog, dialog_ok, tpc, events, quit_flag>>
    /\ UNCHANGED <<workerState, nonRunVars>>

\* The steps of wrapped_run on the worker's thread.
NextRunWorker ==
    \/ RW_Start \/ RW_DialogClosed \/ RW_Quit \/ RW_Wait
    \/ TH_Started \/ TH_Exec \/ TH_DeliverAbort \/ TH_Quit
    \/ WK_Emit
    \/ SI_Run \/ W_Setup \/ W_CheckAbort \/ W_Progress \/ W_Model \/ W_Return
    \/ W_MergeCheckAbort \/ W_MergeProgress \/ W_Merge \/ W_MergeReturn
    \/ EX_Run \/ EX_CheckAbort \/ EX_Quack \/ EX_Return
    \/ UP_Run

SpecRunWorker == InitRunWorker /\ [][NextRunWorker]_vars

\* =================================================================== claims
ValidParams == n >= 1 /\ max_winsize >= 1 /\ RatLess(overlap_ratio, One)

InvalidParams == max_winsize <= 0 \/ n = 0 \/ ~RatLess(overlap_ratio, One)

\* windowed_run has returned normally to its caller.
Returned == pc \in {"done", "fade_in", "fade_out", "overlay"}

NumWindows == Len(window_range)

Covered(j) ==
    \E k \in 1..NumWindows : window_range[k] <= j /\ j < window_range[k] + winsize

\* C1: for n >= 1, max_winsize >= 1 and overlap_ratio in [0,1) the start offsets
\* of windowed_run are strictly increasing, begin at 0, end below n, and every
\* sample index of [0, n) lies in the window of some start.
C1_StartsCoverSignal ==
    (ValidParams /\ pc # "start") =>
        /\ pc # "raised"
        /\ NumWindows >= 1
        /\ window_range[1] = 0
        /\ \A k \in 1..(NumWindows - 1) : window_range[k] < window_range[k + 1]
        /\ window_range[NumWindows] < n
        /\ \A j \in 0..(n - 1) : Covered(j)

C1_Witness ==
    /\ ValidParams /\ fn = "windowed_run" /\ pc = "done"
    /\ NumWindows >= 3 /\ overlap >= 1
    /\ window_range[NumWindows] + winsize > n

\* signal[beg:n] followed by zeros up to winsize samples.
PaddedWindow(beg) ==
    LET real == PySlice(tnsr, beg, n)
    IN  [k \in 1..winsize |-> IF k <= Len(real) THEN real[k] ELSE Zero]

\* C2: every batch handed to the model has exactly winsize samples, and for a
\* window with start + winsize > n it equals signal[start:n] followed by zeros:
\* nothing of an earlier window survives in the padding of the reused buffer.
C2_BatchIsZeroPaddedWindow ==
    \A c \in 1..Len(calls) :
        /\ Len(calls[c].input) = winsize
        /\ (calls[c].beg + winsize > n) => calls[c].input = PaddedWindow(calls[c].beg)

\* C3: the model is invoked exactly once per generated start, in increasing
\* start order, and the output list pairs outputs[k] with the call made for
\* starts[k]; an output tensor of its own holds the model's output for that window
\* when windowed_run returns.
C3_OneCallPerStartInOrder ==
    /\ Len(chunks) = Len(calls)
    /\ Len(calls) <= NumWindows
    /\ \A k \in 1..Len(calls) :
          /\ calls[k].beg = window_range[k]
          /\ chunks[k] = calls[k].out
          /\ (k > 1) => calls[k - 1].beg < calls[k].beg
    /\ (pc = "window_loop") => Len(calls) = idx - 1
    /\ Returned => Len(chunks) = NumWindows
    /\ (fn = "windowed_run" /\ pc = "done") =>
          \A k \in 1..Len(chunks) :
              (chunks[k] # 0) => heap[chunks[k]] = calls[k].input

C3_Witness ==
    /\ fn = "windowed_run" /\ pc = "done" /\ modelKind = "fresh"
    /\ Len(calls) >= 3 /\ Len(chunks) = Len(calls)

\* C4: with max_winsize <= 0, n = 0 or overlap_ratio >= 1 windowed_run fails
\* with an error before any model call; it never returns a normal result.
C4_InvalidParametersRaise ==
    (InvalidParams /\ pc # "start") => (pc = "raised" /\ calls = <<>>)

\* C5: for n >= 1, max_winsize >= 1 and overlap_ratio in [0,1): overlap < winsize,
\* stride >= 1, and the window loop terminates after exactly ceil(n / stride)
\* model calls.
C5_LoopTerminates ==
    /\ [](  (ValidParams /\ pc # "start") =>
              /\ pc # "raised"
              /\ overlap < winsize
              /\ stride >= 1
              /\ Len(calls) <= CeilDiv(n, stride)
              /\ Returned => Len(calls) = CeilDiv(n, stride))
    /\ ((ValidParams /\ pc = "start") ~> Returned)

C5_Witness ==
    /\ ValidParams /\ Returned /\ overlap >= 1 /\ n % stride # 0
    /\ Len(calls) = CeilDiv(n, stride) /\ Len(calls) >= 2

\* C6: for valid parameters windowed_audio_rendering returns a signal of exactly
\* the input's length: the overlay truncates the zero-padding of windows that
\* extend past the end and writes to the indices of [0, n) only.
C6_StitchedLengthIsInputLength ==
    (ValidParams /\ fn = "windowed_audio_rendering"
        /\ pc \notin {"start", "window_loop", "fade_in", "fade_out", "overlay"}) =>
        /\ pc = "done"
        /\ Len(result) = n
        /\ written = 0..(n - 1)

C6_Witness ==
    /\ ValidParams /\ fn = "windowed_audio_rendering" /\ pc = "done"
    /\ NumWindows >= 2 /\ window_range[NumWindows] + winsize > n
    /\ Len(result) = n

\* C7: for two adjacent chunks overlapping by k >= 1 samples, at overlap position
\* i the fade-in factor of chunk 2 is (i+1)/(k+1), the fade-out factor of chunk 1
\* is (k-i)/(k+1), and the two sum to exactly 1.
C7_CrossfadeSumsToOne ==
    (fpc = "done" /\ fade_len >= 1) =>
        \A i \in 0..(fade_len - 1) :
            LET fo == ch1[Len(ch1) - fade_len + i + 1]
                fi == ch2[i + 1]
            IN  /\ fi = Rat(i + 1, fade_len + 1)
                /\ fo = Rat(fade_len - i, fade_len + 1)
                /\ RAdd(fo, fi) = One

C7_Witness ==
    fpc = "done" /\ fade_len = MaxFade /\ Len(ch1) = MaxFade + 1 /\ Len(ch2) > MaxFade + 1

\* C8: for valid parameters and a model returning a fresh copy of its window, the
\* total weight windowed_audio_rendering gives every sample is 1: the stitched
\* output reproduces the input, also for overlap ratios above 0.5.
C8_StitchingReproducesInput ==
    (ValidParams /\ fn = "windowed_audio_rendering" /\ modelKind = "fresh" /\ pc = "done") =>
        result = tnsr

MergeRange == RangeOf(str1, str2, max_range)

\* The candidate lengths whose score meets the threshold.
Qualifying == {i \in 0..(MergeRange - 1) : ~RatLess(ScoreAt(str1, str2, i), thresh)}

IsPrefix(p, s) == Len(p) <= Len(s) /\ SubSeq(s, 1, Len(p)) = p

C10_LargestQualifyingOverlap ==
    (mpc = "done" /\ Qualifying # {}) =>
        /\ match \in Qualifying
        /\ \A i \in Qualifying : i <= match
        /\ match_score = ScoreAt(str1, str2, match)

\* The docstring's case: ("123456789", "778899abcdef", 0.5) gives match 6 with
\* score 0.5, although a smaller candidate scores strictly higher.
C10_Witness ==
    /\ mpc = "done" /\ Len(str1) = 9 /\ Len(str2) = 12
    /\ thresh = <<1, 2>> /\ max_range = <<>>
    /\ match = 6 /\ match_score = <<1, 2>>
    /\ \E i \in Qualifying : i < match /\ RatLess(match_score, ScoreAt(str1, str2, i))

\* C11: if no candidate length meets the threshold, merge_overlapping_strings
\* returns match = 0, match_score = -1 and merged = str1 + str2; match_score is
\* -1 in that case only, and otherwise lies in [thresh, 1].
C11_NoMatchIsPlainConcatenation ==
    (mpc = "done") =>
        /\ (Qualifying = {}) =>
              /\ match = 0
              /\ match_score = <<-1, 1>>
              /\ merged = str1 \o str2
        /\ (match_score = <<-1, 1>>) => Qualifying = {}
        /\ (Qualifying # {}) =>
              /\ ~RatLess(match_score, thresh)
              /\ ~RatLess(One, match_score)

\* ("abc", "def") with a threshold no candidate reaches.
C11_Witness ==
    /\ mpc = "done" /\ MergeRange >= 3 /\ Qualifying = {}
    /\ str1 # <<>> /\ str2 # <<>>
    /\ match = 0 /\ merged = str1 \o str2

\* The candidate lengths i > 0 of the range at which the suffix str1[-i:] and the
\* prefix str2[:i] are the same string.
PerfectOverlaps ==
    {i \in 1..(MergeRange - 1) : PySliceFrom(str1, -i) = PySliceTo(str2, i)}

HelloWorld == <<"h", "e", "l", "l", "o", " ", "w", "o", "r", "l", "d">>

WorldPeace == <<"w", "o", "r", "l", "d", " ", "p", "e", "a", "c", "e">>

\* C12: with thresh = 1.0 match stays 0 unless for some i > 0 of the range the
\* last i characters of str1 are the first i characters of str2; then the largest
\* such i is returned with match_score 1.0 and the shared text appears once in
\* merged ("hello world" + "world peace": match 5, "hello world peace").
C12_PerfectOverlapAtThresholdOne ==
    (mpc = "done" /\ thresh = One) =>
        /\ (PerfectOverlaps = {}) => match = 0
        /\ (PerfectOverlaps # {}) =>
              /\ match \in PerfectOverlaps
              /\ \A i \in PerfectOverlaps : i <= match
              /\ match_score = One
              /\ merged = SubSeq(str1, 1, Len(str1) - Min(match, Len(str1))) \o str2
        /\ (str1 = HelloWorld /\ str2 = WorldPeace /\ max_range = <<>>) =>
              /\ match = 5
              /\ merged = SubSeq(HelloWorld, 1, 6) \o WorldPeace

C12_Witness ==
    /\ mpc = "done" /\ thresh = One
    /\ str1 = HelloWorld /\ str2 = WorldPeace /\ max_range = <<>>
    /\ match = 5 /\ match_score = One /\ Len(merged) = 17

\* C13: windowed_stt_rendering returns a match_scores list with one entry per
\* merge step, which is one fewer than the number of windows: the first window's
\* text starts the accumulator without a merge and contributes no score.
C13_OneScoreFewerThanWindows ==
    (fn = "windowed_stt_rendering" /\ pc = "done" /\ NumWindows >= 1) =>
        /\ ret.tag = "tuple"
        /\ Len(ret.items[2]) = NumWindows - 1

\* The job has ended: wrapped_run has emitted the result, or an exception has
\* left it.
Finished == pc \in {"done", "raised"}

Silero == fn = "WavToTextSileroWorker"

\* The job was stopped by an abort check: the flag is set and window or merge
\* steps of the full run are missing.
AbortTripped ==
    /\ abort_flag /\ Finished
    /\ Len(calls) < NumWindows \/ Len(match_scores) < Len(chunks)

\* C14: if the abort flag becomes True while WavToTextSileroWorker iterates over
\* windows or merge steps, run returns, with no exception raised anywhere in the
\* call chain, a result flagged incomplete (not a transcript) that reflects
\* strictly fewer windows/scores than the full run.
C14_AbortReturnsIncompleteResult ==
    (Silero /\ AbortTripped) =>
        /\ err = ""
        /\ pc = "done"
        /\ ret.tag # "str"

\* C15: the abort flag is checked before every window iteration and every merge
\* step of the worker: with the flag set at the start of an iteration the loop
\* is left with no model call and no merge, nothing runs afterwards, and a
\* model call or merge made with the flag set is the one whose iteration had
\* passed its check before.
C15_AbortCheckedBeforeEveryStep ==
    /\ [][(Silero /\ abort_flag /\ pc = "window_loop" /\ idx <= Len(window_range)) =>
             (pc' = "raised" /\ UNCHANGED <<calls, chunks, match_scores, merged_text>>)]_vars
    /\ [][(Silero /\ abort_flag /\ pc = "merge_loop" /\ midx <= Len(chunks)) =>
             (pc' = "raised" /\ UNCHANGED <<calls, chunks, match_scores, merged_text>>)]_vars
    /\ [][(Silero /\ pc = "raised") =>
             UNCHANGED <<pc, calls, chunks, match_scores, merged_text, progress, emitted>>]_vars
    /\ [][(Silero /\ abort_flag /\ calls' # calls) =>
             (pc = "window_model" /\ pc' = "window_loop" /\ Len(calls') = Len(calls) + 1)]_vars
    /\ [][(Silero /\ abort_flag /\ match_scores' # match_scores) =>
             (pc = "merge_step" /\ pc' = "merge_loop"
                 /\ Len(match_scores') = Len(match_scores) + 1)]_vars

\* The flag was found set at the check of the third window, after two calls.
C15_Witness ==
    /\ Silero /\ abort_flag /\ pc = "raised" /\ err = "TypeError"
    /\ Len(calls) = 2 /\ NumWindows >= 3 /\ match_scores = <<>>

\* C16: every progress value a worker emits (WavToTextSileroWorker for any
\* number of windows >= 1, ExampleWorker for any quack_count >= 1) is an integer
\* of PROGRESS_BAR_RANGE = [0, 100]: the assertion of
\* ProfileDialog.update_progress never fails.
C16_ProgressInBarRange ==
    (fn \in Workers) =>
        \A k \in 1..Len(progress) : progress[k] \in ProgressMin..ProgressMax

C16_Witness ==
    /\ Silero /\ pc = "done" /\ NumWindows >= 3
    /\ Len(progress) = 2 * NumWindows
    /\ progress[Len(progress)] = ProgressMax

\* C17: over one whole job of WavToTextSileroWorker.run (the window phase, then
\* the merge phase) the sequence of emitted progress values never decreases.
C17_ProgressNeverDecreases ==
    Silero => \A k \in 1..(Len(progress) - 1) : progress[k] <= progress[k + 1]

\* C20: every invocation of wrapped_run ends with exactly one emission of
\* resultSignal, carrying the value run returned, however the job ends (normal
\* completion or abort), for each worker subclass.
C20_ResultEmittedExactlyOnce ==
    (fn \in Workers) =>
        /\ Len(emitted) <= 1
        /\ (Finished /\ (err = "" \/ AbortTripped)) =>
              (Len(emitted) = 1 /\ emitted[1] = ret)

\* C18: if the model raises while processing window k, the exception leaves
\* windowed_run and the rendering function that called it: it is not caught, the
\* call is not repeated, no later window is processed and nothing is returned.
C18_ModelErrorPropagates ==
    /\ [](  (err = "ModelError") =>
              /\ pc = "raised"
              /\ result = <<>> /\ ret = NoneValue /\ match_scores = <<>>
              /\ Len(chunks) = Len(calls) - 1
              /\ \A j, k \in 1..Len(calls) : (j < k) => calls[j].beg < calls[k].beg)
    /\ [][(err = "ModelError") => UNCHANGED vars]_vars

\* The model raised at the second of at least three windows.
C18_Witness ==
    /\ err = "ModelError" /\ pc = "raised"
    /\ Len(calls) = 2 /\ NumWindows >= 3 /\ Len(chunks) = 1

\* C19: windowed_run, windowed_audio_rendering and windowed_stt_rendering leave
\* the input signal as it was passed in, given a model that returns fresh outputs:
\* the batch buffer, the chunks and the result are the only tensors written.
C19_InputSignalUnchanged ==
    (modelKind \in {"fresh", "stt"}) => tnsr = tnsr0

\* A stitched rendering with cross-fades over several windows.
C19_Witness ==
    /\ fn = "windowed_audio_rendering" /\ pc = "done" /\ modelKind = "fresh"
    /\ NumWindows >= 2 /\ overlap >= 1 /\ Len(result) = n
    /\ tnsr = tnsr0

\* The chunk t after a fade-in over `ov` samples as the documentation of
\* linear_fade describes it: sample i, 0 <= i <= ov, times (i+1)/(ov+1).
RampedIn(t, ov) ==
    [j \in 1..Len(t) |-> IF j - 1 <= ov THEN RMul(t[j], Rat(j, ov + 1)) ELSE t[j]]

\* The mirrored ramp over the last ov+1 samples, ending at 1/(ov+1).
RampedOut(t, ov) ==
    [j \in 1..Len(t) |->
        IF j >= Len(t) - ov THEN RMul(t[j], Rat(Len(t) - j + 1, ov + 1)) ELSE t[j]]

\* C22: in windowed_audio_rendering every chunk but the first is faded in (sample
\* i, 0 <= i <= overlap, times (i+1)/(overlap+1)) and the first is left as it was;
\* every chunk but the last is faded out by the mirrored ramp ending at
\* 1/(overlap+1) and the last is left as it was; a single chunk gets neither.
C22_ChunksFadedByRamps ==
    /\ [][(fn = "windowed_audio_rendering" /\ pc = "fade_in" /\ pc' = "fade_out") =>
            \A k \in 1..Len(chunks) :
                LET before == Deref([b |-> batch, h |-> heap], chunks[k])
                    after == Deref([b |-> batch', h |-> heap'], chunks[k])
                IN  after = IF k > 1 THEN RampedIn(before, overlap) ELSE before]_vars
    /\ [][(fn = "windowed_audio_rendering" /\ pc = "fade_out" /\ pc' = "overlay") =>
            \A k \in 1..Len(chunks) :
                LET before == Deref([b |-> batch, h |-> heap], chunks[k])
                    after == Deref([b |-> batch', h |-> heap'], chunks[k])
                IN  after = IF k < Len(chunks) THEN RampedOut(before, overlap)
                            ELSE before]_vars

\* C27: after windowed_run has returned, every collected output still has the
\* value it had when it was collected at its iteration (the model's output for
\* that window, a copy of the batch it was given), whatever the later iterations
\* did to the reused batch buffer.
C27_CollectedOutputsKeepTheirValue ==
    (fn = "windowed_run" /\ pc = "done") =>
        \A k \in 1..Len(chunks) :
            Deref([b |-> batch, h |-> heap], chunks[k]) = calls[k].input

\* The last i characters of s (all of s if it has fewer).
LastChars(s, i) == SubSeq(s, Max(Len(s) - i, 0) + 1, Len(s))

\* The first i characters of s (all of s if it has fewer).
FirstChars(s, i) == SubSeq(s, 1, Min(i, Len(s)))

\* C23 as stated: for every candidate length i from 0 to max_range - 1 the score
\* is the similarity of exactly the last i characters of str1 and the first i
\* characters of str2, and at i = 0 it is 1.0 (two empty strings) whatever str1 is.
C23_ScoreOfExactlyILastAndFirst ==
    mpc = "done" =>
        \A i \in 0..(MergeRange - 1) :
            /\ ScoreAt(str1, str2, i) = Ratio(LastChars(str1, i), FirstChars(str2, i))
            /\ i = 0 => ScoreAt(str1, str2, i) = One

\* C23 amended: for 1 <= i < max_range the score is the similarity of the last i
\* characters of str1 and the first i characters of str2; at i = 0 it is the
\* similarity of the whole of str1 (str1[-0:]) and the empty string, which is 1.0
\* only for an empty str1 and 0 otherwise, so that a non-empty str1 without a
\* qualifying i >= 1 and a positive threshold ends with match_score -1.
C23_ScoreAtZeroComparesWholeStr1 ==
    mpc = "done" =>
        /\ \A i \in 0..(MergeRange - 1) :
            /\ i >= 1 => ScoreAt(str1, str2, i) =
                            Ratio(LastChars(str1, i), FirstChars(str2, i))
            /\ i = 0 => /\ ScoreAt(str1, str2, i) = Ratio(str1, <<>>)
                        /\ ScoreAt(str1, str2, i) = IF str1 = <<>> THEN One ELSE Zero
        /\ (str1 # <<>> /\ RatLess(Zero, thresh) /\ Qualifying \subseteq {0}) =>
                match_score = <<-1, 1>>

C23_Witness ==
    /\ mpc = "done" /\ str1 # <<>> /\ str2 # <<>> /\ MergeRange >= 2
    /\ thresh = One /\ match_score = <<-1, 1>>

\* C25: when 1 <= len(tnsr) <= max_winsize and overlap_ratio is in [0,1),
\* windowed_run calls the model exactly once, on the whole tensor; the model is
\* called more than once only when the tensor is longer than max_winsize.
C25_ShortTensorIsOneCall ==
    (Returned /\ ~RatLess(overlap_ratio, Zero) /\ RatLess(overlap_ratio, One)) =>
        /\ (n >= 1 /\ n <= max_winsize) => (Len(calls) = 1 /\ calls[1].input = tnsr)
        /\ Len(calls) > 1 => n > max_winsize

\* C29: the overlap length merge_overlapping_strings returns never exceeds
\* min(len(str1), len(str2)), also for an explicit max_range larger than both
\* strings: the chosen pieces are a suffix of str1 and a prefix of str2 of the
\* same length `match`, and a non-empty str2 is dropped entirely only when all of
\* it is an overlap of its own length.
C29_MatchWithinBothStrings ==
    mpc = "done" =>
        /\ match <= Min(Len(str1), Len(str2))
        /\ match >= 1 => (/\ Len(PySliceFrom(str1, -match)) = match
                          /\ Len(PySliceTo(str2, match)) = match)
        /\ (str2 # <<>> /\ merged = str1) => match = Len(str2)

\* C28: for every merge threshold in [0,1] and every max_overlap_characters >= 1
\* the text of windowed_stt_rendering begins with the first window's text in
\* full: the merge of the first chunk into the empty accumulator drops none of
\* its characters, and every later merge keeps the accumulator as a prefix.
C28_FirstTextKeptInFull ==
    /\ []((/\ fn = "windowed_stt_rendering" /\ pc \in {"merge_loop", "done"}
           /\ midx >= 2
           /\ max_overlap_characters # <<>> /\ max_overlap_characters[1] >= 1)
          => IsPrefix(heap[chunks[1]], merged_text))
    /\ [][(fn = "windowed_stt_rendering" /\ pc = "merge_loop" /\ midx >= 1)
          => IsPrefix(merged_text, merged_text')]_vars

\* The progress value of `completed` finished steps out of `total`.
ProgressOf(completed, total) == (100 * completed) \div total

\* C24: each progress value of WavToTextSileroWorker is emitted after its window
\* (resp. merge) step has completed and equals floor(100 * completed / total);
\* 100 is emitted only after the last window has been run through the model
\* (resp. the last merge has been done).
C24_ProgressAfterCompletedStep ==
    /\ [][(Silero /\ pc = "window_progress" /\ progress' # progress) =>
            /\ progress'[Len(progress')] = ProgressOf(Len(calls), NumWindows)
            /\ progress'[Len(progress')] = ProgressMax => Len(calls) = NumWindows]_vars
    /\ [][(Silero /\ pc = "merge_progress" /\ progress' # progress) =>
            /\ progress'[Len(progress')] = ProgressOf(Len(match_scores), Len(chunks))
            /\ progress'[Len(progress')] = ProgressMax
                    => Len(match_scores) = Len(chunks)]_vars

\* TRUE if the calls of log hold an edit() with no save() after it.
RECURSIVE EditedSinceSave(_)
EditedSinceSave(log) ==
    IF log = <<>> THEN FALSE
    ELSE LET e == log[Len(log)]
         IN  IF e.op = "edit" THEN TRUE
             ELSE IF e.op = "save" THEN FALSE
             ELSE EditedSinceSave(SubSeq(log, 1, Len(log) - 1))

AtAbortCheck ==
    \/ fn = "WavToTextSileroWorker" /\ pc = "window_loop" /\ idx <= Len(window_range)
    \/ fn = "WavToTextSileroWorker" /\ pc = "merge_loop" /\ midx <= Len(chunks)
    \/ fn = "ExampleWorker" /\ pc = "quack_loop" /\ quack /\ qi < quack_count

\* C21: if the dialog is rejected while the worker's run is still iterating, the
\* _abort flag is True while run is still in progress, so that run stops at its
\* next abort check instead of going on with the remaining steps.
C21_CancelStopsRunAtNextCheck ==
    /\ []((dialog_ok = "rejected" /\ AtAbortCheck) => abort_flag)
    /\ [][(dialog_ok = "rejected" /\ AtAbortCheck) =>
            pc' \notin {"window_progress", "merge_progress", "quack_step"}]_vars

\* C30: run_worker does not return before wrapped_run has finished, with or
\* without a dialog: when it has returned the worker's thread has finished and
\* no run is executing; after a cancel the GUI thread stays in run_worker for as
\* long as the job runs.
C30_ReturnsAfterWrappedRun ==
    /\ rpc = "returned" => (tpc = "finished" /\ pc \in {"done", "raised"})
    /\ (dialog_ok = "rejected" /\ pc \notin {"done", "raised"}) => rpc # "returned"
    /\ (rpc = "returned" /\ pc = "done") => Len(emitted) = 1

\* A cancelled job of several windows, and run_worker has returned.
C30_Witness ==
    /\ rpc = "returned" /\ with_dialog /\ dialog_ok = "rejected"
    /\ Silero /\ NumWindows >= 2 /\ Len(calls) = NumWindows
    /\ pc = "done" /\ tpc = "finished"

====
